---- MODULE Spec2Model ----
(***************************************************************************)
(* A model of covid19/data.py: the CDM validator, the wide-table           *)
(* normalizer, the JHU array builders, the ISTAT mortality normalizer and  *)
(* the grid-to-point resampler.                                            *)
(*                                                                         *)
(* Every function of the module is synchronous and keeps no state between  *)
(* calls, so the state machine is one call: `call` holds the function and  *)
(* its arguments, `ret` what it returned or raised, `pc` whether the call  *)
(* has run.  A text is a sequence of one-character strings, a calendar     *)
(* date is a number of days since 1970-01-01 (numpy's datetime64[D]).      *)
(***************************************************************************)
EXTENDS Integers, Sequences, FiniteSets, TLC

VARIABLES pc, call, ret

vars == <<pc, call, ret>>

None == [err |-> "None"]

(***************************************************************************)
(* Sequences and texts                                                     *)
(***************************************************************************)
Range(s) == {s[i] : i \in 1..Len(s)}

\* the sequences over S of length lo..hi
SeqsOf(S, lo, hi) == UNION {[1..n -> S] : n \in lo..hi}

RECURSIVE SumSeq(_)
SumSeq(s) == IF s = <<>> THEN 0 ELSE Head(s) + SumSeq(Tail(s))

\* str.strip(): leading and trailing white space removed
RECURSIVE LStrip(_)
LStrip(s) == IF s # <<>> /\ Head(s) = " " THEN LStrip(Tail(s)) ELSE s

RECURSIVE RStrip(_)
RStrip(s) ==
    IF s # <<>> /\ s[Len(s)] = " " THEN RStrip(SubSeq(s, 1, Len(s) - 1)) ELSE s

Strip(s) == RStrip(LStrip(s))

\* sep.join(parts)
RECURSIVE Join(_, _)
Join(sep, parts) ==
    IF parts = <<>> THEN <<>>
    ELSE IF Len(parts) = 1 THEN parts[1]
    ELSE parts[1] \o sep \o Join(sep, Tail(parts))

\* the generator (i for i in items if i): the items that are truthy
RECURSIVE Truthy(_)
Truthy(items) ==
    IF items = <<>> THEN <<>>
    ELSE IF Head(items) # <<>> THEN <<Head(items)>> \o Truthy(Tail(items))
    ELSE Truthy(Tail(items))

\* a pandas object cell: a str, or the float NaN that read_csv puts for an
\* empty cell
Str(s) == [t |-> "str", v |-> s]
NaN == [t |-> "float", v |-> <<>>]
IsStr(x) == x.t = "str"

\* pd.read_csv(path): an empty cell is NaN; with keep_default_na=False it is
\* the empty str
ReadCell(cell, keep_default_na) ==
    IF keep_default_na /\ cell = <<>> THEN NaN ELSE Str(cell)

(***************************************************************************)
(* Calendar: numpy datetime64[D]                                           *)
(***************************************************************************)
IsLeap(y) == (y % 4 = 0 /\ y % 100 # 0) \/ y % 400 = 0

DaysInMonth(y, m) ==
    IF m = 2 THEN (IF IsLeap(y) THEN 29 ELSE 28)
    ELSE IF m \in {4, 6, 9, 11} THEN 30 ELSE 31

RECURSIVE DaysBeforeMonth(_, _)
DaysBeforeMonth(y, m) ==
    IF m <= 1 THEN 0 ELSE DaysBeforeMonth(y, m - 1) + DaysInMonth(y, m - 1)

LeapsBefore(y) == ((y - 1) \div 4) - ((y - 1) \div 100) + ((y - 1) \div 400)

\* days from 1970-01-01 to y-m-d
DaysFromCivil(y, m, d) ==
    365 * (y - 1970) + (LeapsBefore(y) - LeapsBefore(1970))
        + DaysBeforeMonth(y, m) + (d - 1)

YearsModelled == 1969..2100

\* the calendar date <<y, m, d>> of a day number
CivilFromDays(z) ==
    LET y == CHOOSE yy \in YearsModelled :
                 DaysFromCivil(yy, 1, 1) <= z /\ z < DaysFromCivil(yy + 1, 1, 1)
        m == CHOOSE mm \in 1..12 :
                 /\ DaysFromCivil(y, mm, 1) <= z
                 /\ z < DaysFromCivil(y, mm, 1) + DaysInMonth(y, mm)
    IN  <<y, m, z - DaysFromCivil(y, m, 1) + 1>>

\* the decimal digits of n >= 0, as str(n) writes them
RECURSIVE Digits(_)
Digits(n) == IF n < 10 THEN <<n>> ELSE Digits(n \div 10) \o <<n % 10>>

\* int(text) of a text of digits
RECURSIVE IntOf(_)
IntOf(ds) ==
    IF ds = <<>> THEN 0 ELSE 10 * IntOf(SubSeq(ds, 1, Len(ds) - 1)) + ds[Len(ds)]

\* "%02d" % n and "{:02d}".format(n)
Pad2(n) == IF n < 10 THEN <<0, n>> ELSE Digits(n)

\* np.datetime64("<year>-<month>-<day>"): an ISO date has a year of exactly
\* four digits, a month and a day of two, and names a day of the calendar
ParseIso(year, month, day) ==
    LET y == IntOf(year)
        m == IntOf(month)
        d == IntOf(day)
    IN  IF /\ Len(year) = 4 /\ Len(month) = 2 /\ Len(day) = 2
           /\ m \in 1..12
           /\ d \in 1..DaysInMonth(y, m)
        THEN [err |-> "", days |-> DaysFromCivil(y, m, d)]
        ELSE [err |-> "ValueError", days |-> 0]

(***************************************************************************)
(* The canonical data model and its validator                              *)
(***************************************************************************)
CDM_DIMS == {"location", "time", "age_class", "dayofyear", "month", "year"}

CDM_COORDS == CDM_DIMS \cup {"country", "state", "region", "province", "lat", "lon"}

\* cdm_check with the coordinates held to the dimension vocabulary
cdm_check_dims_only(da) ==
    IF da.dims \ CDM_DIMS # {}
    THEN [err |-> "ValueError", msg |-> "Unsupported dims", names |-> da.dims \ CDM_DIMS]
    ELSE IF da.coords \ CDM_DIMS # {}
    THEN [err |-> "ValueError", msg |-> "Unsupported coords",
          names |-> da.coords \ CDM_DIMS]
    ELSE None

\* cdm_check(da): what it raises, or None
cdm_check(da) ==
    IF da.dims \ CDM_DIMS # {}
    THEN [err |-> "ValueError", msg |-> "Unsupported dims", names |-> da.dims \ CDM_DIMS]
    ELSE IF da.coords \ CDM_COORDS # {}
    THEN [err |-> "ValueError", msg |-> "Unsupported coords",
          names |-> da.coords \ CDM_COORDS]
    ELSE None

CdmCheck ==
    /\ pc = "start"
    /\ call.fn = "cdm_check"
    /\ ret' = cdm_check(call.arg)
    /\ pc' = "done"
    /\ UNCHANGED call

\* the arrays handed to cdm_check: any dimension names, any coordinate names
DimNames == {"location", "time", "year", "index", "date"}
CoordNames == {"location", "time", "country", "state", "county", "population", "lon"}

InitCdm ==
    /\ pc = "start"
    /\ ret = None
    /\ \E d \in SUBSET DimNames, c \in SUBSET CoordNames :
           call = [fn |-> "cdm_check", arg |-> [dims |-> d, coords |-> c], opt |-> ""]

SpecCdm == InitCdm /\ [][CdmCheck]_vars

(***************************************************************************)
(* The mortality registry normalizer                                       *)
(***************************************************************************)
\* read_csv(..., na_values=9999): a cell holding 9999 is read as missing
NA_VALUE == 9999

isfinite(x) == x # NA_VALUE

\* np.datetime64("2020-01-01", "D")
Epoch2020 == ParseIso(<<2, 0, 2, 0>>, <<0, 1>>, <<0, 1>>).days

\* ge2dayofyear with the February boundary taken inclusively
ge2dayofyear_inclusive(x) ==
    IF x < 132 THEN x - 101
    ELSE IF x <= 230 THEN x - 170
    ELSE IF x < 400 THEN x - 241
    ELSE x - 310

\* ge2dayofyear with the offsets of a year whose February has 28 days
ge2dayofyear_common_year(x) ==
    IF x < 132 THEN x - 101
    ELSE IF x < 230 THEN x - 170
    ELSE IF x < 400 THEN x - 242
    ELSE x - 311

ge2dayofyear(x) ==
    IF x < 132 THEN x - 101
    ELSE IF x < 230 THEN x - 170
    ELSE IF x < 400 THEN x - 241
    ELSE x - 310

\* cl_eta2age with the decades starting one code early
cl_eta2age_early(x) ==
    IF x < 10 THEN "0-49"
    ELSE IF x < 19
    THEN ToString(((x - 1) \div 2) * 10) \o "-" \o ToString(((x - 1) \div 2) * 10 + 9)
    ELSE "90+"

cl_eta2age(x) ==
    IF x <= 10 THEN "0-49"
    ELSE IF x < 19
    THEN ToString(((x - 1) \div 2) * 10) \o "-" \o ToString(((x - 1) \div 2) * 10 + 9)
    ELSE "90+"

\* istat[np.isfinite(istat["TOTALE_20"])]: the rows whose TOTALE_20 is among
\* keep, in order
RECURSIVE SelectRows(_, _)
SelectRows(s, keep) ==
    IF s = <<>> THEN <<>>
    ELSE IF Head(s).TOTALE[6] \in keep THEN <<Head(s)>> \o SelectRows(Tail(s), keep)
    ELSE SelectRows(Tail(s), keep)

\* istat_to_pandas(path, drop): the table with its time and age_class columns
istat_to_pandas(csv, drop) ==
    LET istat == [i \in 1..Len(csv) |->
                     [GE |-> csv[i].GE, CL_ETA |-> csv[i].CL_ETA,
                      NOME_COMUNE |-> csv[i].NOME_COMUNE,
                      NOME_REGIONE |-> csv[i].NOME_REGIONE,
                      NOME_PROVINCIA |-> csv[i].NOME_PROVINCIA,
                      TOTALE |-> csv[i].TOTALE,
                      time |-> Epoch2020 + 1 * ge2dayofyear(csv[i].GE),
                      age_class |-> cl_eta2age(csv[i].CL_ETA)]]
        totals == {istat[i].TOTALE[6] : i \in 1..Len(istat)}
    IN  IF drop THEN SelectRows(istat, {t \in totals : isfinite(t)})
        ELSE istat

IstatToPandas ==
    /\ pc = "start"
    /\ call.fn = "istat_to_pandas"
    /\ ret' = [err |-> "", istat |-> istat_to_pandas(call.arg, call.opt)]
    /\ pc' = "done"
    /\ UNCHANGED call

\* the year columns of the registry: TOTALE_15 .. TOTALE_20
YearNames == <<2015, 2016, 2017, 2018, 2019, 2020>>

\* the first row of the table whose municipality is c
FirstOf(istat, c) ==
    istat[CHOOSE i \in 1..Len(istat) :
              /\ istat[i].NOME_COMUNE = c
              /\ \A j \in 1..(i - 1) : istat[j].NOME_COMUNE # c]

\* Series.sum() of one year column over a group: missing cells are skipped
RECURSIVE GroupSum(_, _, _)
GroupSum(istat, key, y) ==
    IF istat = <<>> THEN 0
    ELSE LET r == Head(istat)
             v == IF <<r.time, r.age_class, r.NOME_COMUNE>> = key /\ isfinite(r.TOTALE[y])
                  THEN r.TOTALE[y] ELSE 0
         IN  v + GroupSum(Tail(istat), key, y)

\* istat_to_xarray(path, drop): (istat, data)
istat_to_xarray(csv, drop) ==
    LET istat == istat_to_pandas(csv, drop)
        rows == Range(istat)
        times == {r.time : r \in rows}
        ages == {r.age_class : r \in rows}
        locs == {r.NOME_COMUNE : r \in rows}
        groups == {<<r.time, r.age_class, r.NOME_COMUNE>> : r \in rows}
        \* tmp.to_xarray().rename({"NOME_COMUNE": "location"}).fillna(0),
        \* then to_array("year")
        values == [y \in 1..Len(YearNames) |->
                      [k \in times \X ages \X locs |->
                          IF k \in groups THEN GroupSum(istat, k, y) ELSE 0]]
    IN  [err |-> "",
         istat |-> istat,
         dims |-> {"year", "time", "age_class", "location"},
         coords |-> {"year", "time", "age_class", "location"} \cup {"region", "province", "year"},
         time |-> times, age_class |-> ages, location |-> locs,
         year |-> YearNames,
         region |-> [c \in locs |-> FirstOf(istat, c).NOME_REGIONE],
         province |-> [c \in locs |-> FirstOf(istat, c).NOME_PROVINCIA],
         values |-> values]

IstatToXarray ==
    /\ pc = "start"
    /\ call.fn = "istat_to_xarray"
    /\ ret' = istat_to_xarray(call.arg, call.opt)
    /\ pc' = "done"
    /\ UNCHANGED call

\* the registry tables checked: a record from a few, then one of any day code
\* and age code
MaxGE == 450
MaxClEta == 22

IstatRow(ge, cl, comune, t20) ==
    [GE |-> ge, CL_ETA |-> cl, NOME_COMUNE |-> comune,
     NOME_REGIONE |-> IF comune = "Roma" THEN "Lazio" ELSE "Lombardia",
     NOME_PROVINCIA |-> IF comune = "Roma" THEN "RM" ELSE "MI",
     TOTALE |-> <<1, 1, 2, NA_VALUE, 3, t20>>]

InitIstat ==
    /\ pc = "start"
    /\ ret = None
    /\ \E first \in {<<101, 5>>, <<229, 12>>, <<331, 17>>, <<401, 20>>},
          ge \in 0..MaxGE, cl \in 0..MaxClEta, t20 \in {4, NA_VALUE}, drop \in BOOLEAN :
           call = [fn |-> "istat_to_pandas",
                   arg |-> <<IstatRow(first[1], first[2], "Roma", 2),
                             IstatRow(ge, cl, "Milano", t20)>>,
                   opt |-> drop]

SpecIstat == InitIstat /\ [][IstatToPandas]_vars

(***************************************************************************)
(* The JHU time-series files                                               *)
(*                                                                         *)
(* A file is [schema, labels, rows]: its columns are the schema's leading  *)
(* columns followed by one column per date label; a label M/D/YY is        *)
(* [m, d, y], each the digits between the slashes; a row is                *)
(* [country, state, county, population, vals], vals having one count per   *)
(* date label (county and population are columns of the US schema only).   *)
(***************************************************************************)
LeadColumns(schema) ==
    IF schema = "world"
    THEN <<"Province/State", "Country/Region", "Lat", "Long">>
    ELSE <<"UID", "iso2", "iso3", "code3", "FIPS", "Admin2", "Province_State",
           "Country_Region", "Lat", "Long_", "Combined_Key", "Population">>

REFORMAT ==
    [world |-> [date_start |-> 4, country |-> "Country/Region", state |-> "Province/State"],
     usa |-> [date_start |-> 16, country |-> "Country_Region", state |-> "Province_State"]]

\* s[n:] of Python, n counted from 0
From(s, n) == IF n >= Len(s) THEN <<>> ELSE SubSeq(s, n + 1, Len(s))

\* np.datetime64("20{2}-{0:02d}-{1:02d}".format(*map(int, d.split("/"))))
ParseHeader(d) ==
    ParseIso(<<2, 0>> \o Digits(IntOf(d.y)), Pad2(IntOf(d.m)), Pad2(IntOf(d.d)))

\* "2020-%02d-%02d" % tuple(map(int, d.split("/")[:2])), read as a datetime64
ParseDateLabel(d) ==
    ParseIso(<<2, 0, 2, 0>>, Pad2(IntOf(d.m)), Pad2(IntOf(d.d)))

\* record[country].strip(), and " - " + record[state].strip() when the state
\* is a str; a NaN country has no strip()
ReformatLocation(country, state) ==
    IF ~IsStr(country) THEN [err |-> "AttributeError", v |-> <<>>]
    ELSE [err |-> "",
          v |-> IF IsStr(state)
                THEN Strip(country.v) \o <<" ", "-", " ">> \o Strip(state.v)
                ELSE Strip(country.v)]

\* Accumulate with the counts assigned, not added
AccumulateAssign(lines, location, country, date, population, deaths) ==
    LET hit == {k \in 1..Len(lines) :
                   lines[k].location = location /\ lines[k].date = date}
        with == IF hit = {}
                THEN Append(lines, [location |-> location, country |-> country,
                                    deaths |-> 0, population |-> 0, date |-> date])
                ELSE lines
        k == CHOOSE j \in 1..Len(with) :
                 with[j].location = location /\ with[j].date = date
    IN  [with EXCEPT ![k].population = population, ![k].deaths = deaths]

\* lines.setdefault(key, default), then the two += on the line it returns
Accumulate(lines, location, country, date, population, deaths) ==
    LET hit == {k \in 1..Len(lines) :
                   lines[k].location = location /\ lines[k].date = date}
        with == IF hit = {}
                THEN Append(lines, [location |-> location, country |-> country,
                                    deaths |-> 0, population |-> 0, date |-> date])
                ELSE lines
        k == CHOOSE j \in 1..Len(with) :
                 with[j].location = location /\ with[j].date = date
    IN  [with EXCEPT ![k].population = @ + population, ![k].deaths = @ + deaths]

\* the two nested loops of reformat, from row r and date column i on
RECURSIVE ReformatLoop(_, _, _, _, _, _)
ReformatLoop(rows, dates, hasPopulation, lines, r, i) ==
    IF r > Len(rows) THEN [err |-> "", lines |-> lines]
    ELSE IF i > Len(dates)
    THEN ReformatLoop(rows, dates, hasPopulation, lines, r + 1, 1)
    ELSE LET record == rows[r]
             location == ReformatLocation(record.country, record.state)
         IN  IF location.err # "" THEN [err |-> location.err, lines |-> <<>>]
             ELSE ReformatLoop(rows, dates, hasPopulation,
                      Accumulate(lines, location.v, record.country, dates[i],
                                 IF hasPopulation THEN record.population ELSE 0,
                                 record.vals[i]),
                      r, i + 1)

\* reformat(path, kind): the rows of the frame it returns, in order, or what
\* it raises
reformat(csv, kind) ==
    LET lead == LeadColumns(csv.schema)
        date_start == REFORMAT[kind].date_start
        skip == date_start - Len(lead)
        headers == From(csv.labels, skip)
        dates == [i \in 1..Len(headers) |-> ParseHeader(headers[i])]
        raw_data == [r \in 1..Len(csv.rows) |->
                        [country |-> ReadCell(csv.rows[r].country, TRUE),
                         state |-> ReadCell(csv.rows[r].state, TRUE),
                         population |-> csv.rows[r].population,
                         vals |-> From(csv.rows[r].vals, skip)]]
        done == ReformatLoop(raw_data, [i \in 1..Len(dates) |-> dates[i].days],
                             "Population" \in Range(lead), <<>>, 1, 1)
    IN  IF skip < 0 \/ \E i \in 1..Len(dates) : dates[i].err # ""
        THEN [err |-> "ValueError", lines |-> <<>>]
        ELSE IF {REFORMAT[kind].country, REFORMAT[kind].state} \ Range(lead) # {}
                /\ csv.rows # <<>> /\ headers # <<>>
        THEN [err |-> "KeyError", lines |-> <<>>]
        ELSE IF done.err # "" THEN done
        \* DataFrame(lines.values()).set_index("date"): no line, no date column
        ELSE IF done.lines = <<>> THEN [err |-> "KeyError", lines |-> <<>>]
        ELSE done

Reformat ==
    /\ pc = "start"
    /\ call.fn = "reformat"
    /\ ret' = reformat(call.arg, call.opt)
    /\ pc' = "done"
    /\ UNCHANGED call

(***************************************************************************)
(* The array builders.  An xarray object is modelled by its names: dims,   *)
(* coords, the data variables that are not date columns (vars) and the     *)
(* date columns (dates), with err = "" until an operation raises.          *)
(***************************************************************************)
\* df.to_xarray(): one dimension, index, and one data variable per column
to_xarray(csv) ==
    [err |-> "", dims |-> {"index"}, coords |-> {"index"},
     vars |-> Range(LeadColumns(csv.schema)), dates |-> csv.labels]

Renamed(names, old, new) ==
    {IF \E i \in 1..Len(old) : old[i] = n
     THEN new[CHOOSE i \in 1..Len(old) : old[i] = n] ELSE n : n \in names}

\* ds.rename({old[i]: new[i]}): every old name has to be in the dataset
rename(ds, old, new) ==
    IF ds.err # "" THEN ds
    ELSE IF Range(old) \ (ds.vars \cup ds.coords \cup ds.dims) # {}
    THEN [ds EXCEPT !.err = "ValueError"]
    ELSE [ds EXCEPT !.dims = Renamed(ds.dims, old, new),
                    !.coords = Renamed(ds.coords, old, new),
                    !.vars = Renamed(ds.vars, old, new)]

\* ds.set_coords(names): data variables become coordinates
set_coords(ds, names) ==
    IF ds.err # "" THEN ds
    ELSE IF names \ (ds.vars \cup ds.coords) # {} THEN [ds EXCEPT !.err = "ValueError"]
    ELSE [ds EXCEPT !.coords = ds.coords \cup names, !.vars = ds.vars \ names]

\* ds.drop(names): variables and coordinates removed
drop(ds, names) ==
    IF ds.err # "" THEN ds
    ELSE IF names \ (ds.vars \cup ds.coords) # {} THEN [ds EXCEPT !.err = "ValueError"]
    ELSE [ds EXCEPT !.coords = ds.coords \ names, !.vars = ds.vars \ names]

\* ds.to_array(dim): the data variables stacked along a new dimension whose
\* coordinate holds their names; there is nothing to stack without one
to_array(ds, dim) ==
    IF ds.err # "" THEN ds
    ELSE IF ds.vars = {} /\ ds.dates = <<>> THEN [ds EXCEPT !.err = "ValueError"]
    ELSE [ds EXCEPT !.dims = ds.dims \cup {dim}, !.coords = ds.coords \cup {dim}]

\* da.assign_coords({name: (dim, ...)}) for each name
assign_coords(da, names) ==
    IF da.err # "" THEN da ELSE [da EXCEPT !.coords = da.coords \cup names]

\* da.swap_dims({old[i]: new[i]}): the old dimension coordinates stay, as
\* coordinates that index nothing
swap_dims(da, old, new) ==
    IF da.err # "" THEN da ELSE [da EXCEPT !.dims = Renamed(da.dims, old, new)]

\* the time coordinate: one date per entry of the date axis; a data variable
\* that is no date column has a name int() cannot read
TimeOf(da) ==
    LET time == [i \in 1..Len(da.dates) |-> ParseDateLabel(da.dates[i])]
    IN  IF da.vars # {} \/ \E i \in 1..Len(time) : time[i].err # ""
        THEN [err |-> "ValueError", v |-> <<>>]
        ELSE [err |-> "", v |-> [i \in 1..Len(time) |-> time[i].days]]

\* " / ".join(i for i in items if i)
BuilderLocation(items) == Join(<<" ", "/", " ">>, Truthy(items))

\* what a builder returns: the names, and the values of the coordinates the
\* claims read
Built(da, time, rows, location) ==
    IF da.err # "" THEN [err |-> da.err]
    ELSE IF time.err # "" THEN [err |-> time.err]
    ELSE [err |-> "", dims |-> da.dims, coords |-> da.coords,
          time |-> time.v,
          location |-> location,
          country |-> [r \in 1..Len(rows) |-> rows[r].country],
          values |-> [i \in 1..Len(time.v) |->
                         [r \in 1..Len(rows) |-> rows[r].vals[i]]]]

jhu_global_to_xarray(csv) ==
    LET ds0 == to_xarray(csv)
        ds1 == rename(ds0, <<"Country/Region", "Province/State", "Lat", "Long">>,
                           <<"country", "state", "lat", "lon">>)
        ds2 == set_coords(ds1, {"country", "state", "lat", "lon"})
        da0 == to_array(ds2, "date")
        time == TimeOf(da0)
        rows == csv.rows
        location == [r \in 1..Len(rows) |->
                        BuilderLocation(<<ReadCell(rows[r].country, FALSE).v,
                                          ReadCell(rows[r].state, FALSE).v>>)]
        da1 == assign_coords(da0, {"time", "location"})
        da2 == swap_dims(da1, <<"date", "index">>, <<"time", "location">>)
        da3 == drop(da2, {"index", "date", "state"})
    IN  Built(da3, time, rows, location)

jhu_usa_to_xarray(csv) ==
    LET ds0 == to_xarray(csv)
        ds1 == rename(ds0, <<"Country_Region", "Province_State", "Admin2", "Lat",
                             "Long_", "Population">>,
                           <<"country", "state", "county", "lat", "lon", "population">>)
        ds2 == set_coords(ds1, {"country", "state", "county", "lat", "lon", "population"})
        ds3 == drop(ds2, {"UID", "iso2", "iso3", "code3", "FIPS", "Combined_Key"})
        da0 == to_array(ds3, "date")
        time == TimeOf(da0)
        rows == csv.rows
        location == [r \in 1..Len(rows) |->
                        BuilderLocation(<<ReadCell(rows[r].country, FALSE).v,
                                          ReadCell(rows[r].state, FALSE).v,
                                          ReadCell(rows[r].county, FALSE).v>>)]
        da1 == assign_coords(da0, {"time", "location"})
        da2 == swap_dims(da1, <<"date", "index">>, <<"time", "location">>)
        da3 == drop(da2, {"index", "date", "county"})
    IN  Built(da3, time, rows, location)

JhuGlobalToXarray ==
    /\ pc = "start"
    /\ call.fn = "jhu_global_to_xarray"
    /\ ret' = jhu_global_to_xarray(call.arg)
    /\ pc' = "done"
    /\ UNCHANGED call

JhuUsaToXarray ==
    /\ pc = "start"
    /\ call.fn = "jhu_usa_to_xarray"
    /\ ret' = jhu_usa_to_xarray(call.arg)
    /\ pc' = "done"
    /\ UNCHANGED call

(***************************************************************************)
(* The grid-to-point resampler.  A grid is [dims, axis]: axis[d] is the    *)
(* increasing coordinate of dimension d.  The observations are a function  *)
(* from coordinate names to arrays of values.                              *)
(***************************************************************************)
Abs(x) == IF x < 0 THEN -x ELSE x

\* the label .sel(method="nearest") picks on an increasing axis: the closest,
\* and of two equally close the larger
Nearest(axis, v) ==
    CHOOSE a \in Range(axis) :
        \A b \in Range(axis) : Abs(b - v) > Abs(a - v) \/ (Abs(b - v) = Abs(a - v) /\ b <= a)

\* Normalized with the longitudes left as observed
NormalizedNot(dim, values) == values

\* observed[dim].values % 360.0 if dim == "lon" else observed[dim].values
Normalized(dim, values) ==
    [k \in 1..Len(values) |-> IF dim = "lon" THEN values[k] % 360 ELSE values[k]]

\* the number of tuples zip(*arrays) yields: none of no array, else as many
\* as the shortest array has
ZipLen(lens) ==
    IF lens = {} THEN 0 ELSE CHOOSE n \in lens : \A m \in lens : n <= m

interp_on_observations(gridded, observed, index) ==
    LET interp_dims == gridded.dims \cap DOMAIN observed
        coords == [dim \in interp_dims |-> Normalized(dim, observed[dim])]
        n == ZipLen({Len(coords[dim]) : dim \in interp_dims})
        interpolated ==
            [k \in 1..n |->
                [dim \in interp_dims |-> Nearest(gridded.axis[dim], coords[dim][k])]]
    IN  \* xr.concat of an empty list
        IF interpolated = <<>> THEN [err |-> "ValueError", data |-> <<>>, index |-> <<>>]
        ELSE IF index \notin DOMAIN observed
        THEN [err |-> "KeyError", data |-> <<>>, index |-> <<>>]
        ELSE IF Len(observed[index]) # n
        THEN [err |-> "ValueError", data |-> <<>>, index |-> <<>>]
        ELSE [err |-> "", data |-> interpolated, index |-> observed[index]]

InterpOnObservations ==
    /\ pc = "start"
    /\ call.fn = "interp_on_observations"
    /\ ret' = interp_on_observations(call.arg.gridded, call.arg.observed, call.opt)
    /\ pc' = "done"
    /\ UNCHANGED call

\* the grids and observations checked
GridAxis ==
    [lat |-> <<-45, 0, 45>>, lon |-> <<0, 90, 180, 270, 350>>, time |-> <<1, 2>>]

ObservedPool ==
    [location |-> {7, 8}, lat |-> {-40, 30}, lon |-> {-10, 100, 370}]

MaxPoints == 2

InitInterp ==
    /\ pc = "start"
    /\ ret = None
    /\ \E nonames \in SUBSET {"lat", "lon"}, nodims \in SUBSET {"lat", "lon", "time"},
          short \in 0..MaxPoints :
         LET n == MaxPoints - short
             dims == {"lat", "lon", "time"} \ nodims
             names == {"lat", "lon"} \ nonames
         IN  \E location \in SeqsOf(ObservedPool.location, n, n),
                lat \in SeqsOf(ObservedPool.lat, n, n),
                lon \in SeqsOf(ObservedPool.lon, n, n) :
               call = [fn |-> "interp_on_observations",
                       arg |-> [gridded |-> [dims |-> dims,
                                             axis |-> [d \in dims |-> GridAxis[d]]],
                                observed |-> [c \in names \cup {"location"} |->
                                                 IF c = "lat" THEN lat
                                                 ELSE IF c = "lon" THEN lon
                                                 ELSE location]],
                       opt |-> "location"]

SpecInterp == InitInterp /\ [][InterpOnObservations]_vars

(***************************************************************************)
(* The JHU files checked                                                   *)
(***************************************************************************)
\* the label M/D/YY as the JHU files write it
Label(M, D, YY) == [m |-> Digits(M), d |-> Digits(D), y |-> Pad2(YY)]

\* the first date columns of the JHU files, 1/22/20 on
FirstLabels == <<Label(1, 22, 20), Label(1, 23, 20), Label(1, 24, 20), Label(1, 25, 20)>>

DateLabels == <<Label(3, 14, 20), Label(12, 31, 20), Label(1, 1, 21), Label(2, 29, 24)>>

\* the date columns reformat skips in a file of the schema, when it is called
\* with the schema's kind
Skipped(schema) ==
    SubSeq(FirstLabels, 1, REFORMAT[schema].date_start - Len(LeadColumns(schema)))

\* a file of the schema with the given date labels after the skipped ones;
\* geo[r] is <<country, state, county, population>> of row r
JhuFile(schema, labels, geo, vals) ==
    [schema |-> schema,
     labels |-> Skipped(schema) \o labels,
     rows |-> [r \in 1..Len(geo) |->
                  [country |-> geo[r][1], state |-> geo[r][2],
                   county |-> IF schema = "usa" THEN geo[r][3] ELSE <<>>,
                   population |-> IF schema = "usa" THEN geo[r][4] ELSE 0,
                   vals |-> [i \in 1..Len(Skipped(schema)) |-> 0] \o vals[r]]]]

US == <<"U", "S">>
IT == <<"I", "T">>
CA == <<"C", "A">>
LA == <<"L", "A">>

\* the rows of well-formed files: <<country, state, county, population>>
GeoPool ==
    {<<US, CA, LA, 100>>, <<US \o <<" ">>, <<" ">> \o CA, <<>>, 250>>,
     <<US, <<>>, <<>>, 40>>, <<IT, <<>>, <<>>, 60>>}

Counts == {3, 5}

MaxRows == 2
MaxDates == 2

\* fn called on a well-formed file of one of the schemas
InitJhu(fn, schemas) ==
    /\ pc = "start"
    /\ ret = None
    /\ \E schema \in schemas, fewer \in 0..MaxDates, less \in 0..MaxRows :
         LET n == MaxDates - fewer
             k == MaxRows - less
         IN  \E geo \in [1..k -> GeoPool], vals \in [1..k -> [1..n -> Counts]] :
               call = [fn |-> fn,
                       arg |-> JhuFile(schema, SubSeq(DateLabels, 1, n), geo, vals),
                       opt |-> schema]

InitReformat == InitJhu("reformat", {"world", "usa"})

SpecReformat == InitReformat /\ [][Reformat]_vars

\* the registry tables the array builder is checked on
InitIstatToXarray ==
    /\ pc = "start"
    /\ ret = None
    /\ \E k \in 0..MaxRows :
         \E rows \in [1..k -> {IstatRow(101, 5, "Roma", 2), IstatRow(101, 12, "Roma", 4),
                               IstatRow(229, 12, "Milano", NA_VALUE),
                               IstatRow(401, 20, "Milano", 1)}],
            flag \in BOOLEAN :
           call = [fn |-> "istat_to_xarray", arg |-> rows, opt |-> flag]

InitBuilders ==
    \/ InitJhu("jhu_global_to_xarray", {"world"})
    \/ InitJhu("jhu_usa_to_xarray", {"usa"})
    \/ InitIstatToXarray

SpecBuilders ==
    InitBuilders /\ [][JhuGlobalToXarray \/ JhuUsaToXarray \/ IstatToXarray]_vars

\* one row whose geography cells are each a text, blank or empty
FieldPool == <<US, <<" ">> \o CA, <<" ">>, <<>>>>

InitLocation ==
    /\ pc = "start"
    /\ ret = None
    /\ \E f \in {<<"reformat", "world">>, <<"reformat", "usa">>,
                 <<"jhu_global_to_xarray", "world">>, <<"jhu_usa_to_xarray", "usa">>},
          country \in DOMAIN FieldPool, state \in DOMAIN FieldPool,
          county \in DOMAIN FieldPool :
           call = [fn |-> f[1],
                   arg |-> JhuFile(f[2], <<DateLabels[1]>>,
                                   <<<<FieldPool[country], FieldPool[state],
                                       FieldPool[county], 100>>>>,
                                   <<<<3>>>>),
                   opt |-> f[2]]

SpecLocation ==
    InitLocation /\ [][Reformat \/ JhuGlobalToXarray \/ JhuUsaToXarray]_vars

\* the functions that parse date labels, with the schema of their file
Parsers ==
    <<<<"jhu_global_to_xarray", "world">>, <<"jhu_usa_to_xarray", "usa">>,
      <<"reformat", "world">>>>

\* one row and one date column labelled M/D/YY, for every day of 2000..2099
InitDates ==
    /\ pc = "start"
    /\ ret = None
    /\ \E i \in DOMAIN Parsers, YY \in 0..99, M \in 1..12 :
         \E D \in 1..DaysInMonth(2000 + YY, M), f \in {Parsers[i]} :
           call = [fn |-> f[1],
                   arg |-> JhuFile(f[2], <<Label(M, D, YY)>>, <<<<US, CA, LA, 100>>>>,
                                   <<<<3>>>>),
                   opt |-> f[2]]

SpecDates ==
    InitDates /\ [][Reformat \/ JhuGlobalToXarray \/ JhuUsaToXarray]_vars

(***************************************************************************)
(* Properties                                                              *)
(***************************************************************************)
Returned(fn) == pc = "done" /\ call.fn = fn

PermittedDims == {"location", "time", "age_class", "dayofyear", "month", "year"}

PermittedCoords ==
    PermittedDims \cup {"country", "state", "region", "province", "lat", "lon"}

\* C1: every array a builder (jhu_global_to_xarray, jhu_usa_to_xarray,
\* istat_to_xarray) returns has its dimension names among the permitted
\* dimensions and its coordinate names among the permitted coordinates, that
\* is, cdm_check accepts it.
C1_BuildersPassCdmCheck ==
    (/\ pc = "done"
     /\ call.fn \in {"jhu_global_to_xarray", "jhu_usa_to_xarray", "istat_to_xarray"}
     /\ ret.err = "")
    => /\ ret.dims \subseteq PermittedDims
       /\ ret.coords \subseteq PermittedCoords
       /\ cdm_check(ret) = None

\* what cdm_check is documented to do with the array it was called on
CdmCheckOutcome ==
    Returned("cdm_check") =>
        LET badDims == call.arg.dims \ PermittedDims
            badCoords == call.arg.coords \ PermittedCoords
        IN  /\ ret = IF badDims # {}
                     THEN [err |-> "ValueError", msg |-> "Unsupported dims",
                           names |-> badDims]
                     ELSE IF badCoords # {}
                     THEN [err |-> "ValueError", msg |-> "Unsupported coords",
                           names |-> badCoords]
                     ELSE None
            /\ CDM_DIMS = PermittedDims
            /\ CDM_COORDS = PermittedCoords
            /\ CDM_DIMS \subseteq CDM_COORDS

\* C2: cdm_check raises the dimension error carrying dims minus the permitted
\* dimensions exactly when that set is not empty; otherwise the coordinate
\* error carrying coords minus the permitted coordinates exactly when that
\* set is not empty; otherwise it returns None.  The two vocabularies are the
\* documented ones, the permitted coordinates include the permitted
\* dimensions, and no step changes the array.
C2_CdmCheck == [](CdmCheckOutcome) /\ [][call' = call]_vars

\* cdm_check has rejected an array with permitted dimensions for its
\* coordinates population and county
C2_Witness ==
    /\ Returned("cdm_check")
    /\ call.arg.dims = {"location", "time"}
    /\ ret.err = "ValueError"
    /\ ret.msg = "Unsupported coords"
    /\ ret.names = {"population", "county"}

\* the day offset the registry's day code is documented to have
DocumentedDayOfYear(GE) ==
    IF GE < 132 THEN GE - 101
    ELSE IF 132 <= GE /\ GE < 230 THEN GE - 170
    ELSE IF 230 <= GE /\ GE < 400 THEN GE - 241
    ELSE GE - 310

\* C6: istat_to_pandas gives every record the time 2020-01-01 plus the
\* documented piecewise offset of its day code GE (GE < 132: GE-101;
\* 132 <= GE < 230: GE-170; 230 <= GE < 400: GE-241; GE >= 400: GE-310), so
\* that code 101 has day-of-year 0 and the time 2020-01-01.
C6_DayOfYearPiecewise ==
    Returned("istat_to_pandas") =>
        /\ \A i \in 1..Len(call.arg) :
               ge2dayofyear(call.arg[i].GE) = DocumentedDayOfYear(call.arg[i].GE)
        /\ \A i \in 1..Len(ret.istat) :
               LET r == ret.istat[i]
               IN  /\ r.time = DaysFromCivil(2020, 1, 1) + DocumentedDayOfYear(r.GE)
                   /\ r.GE = 101 => CivilFromDays(r.time) = <<2020, 1, 1>>

\* records at the boundaries 229 and 400 came back with their branch's offset
C6_Witness ==
    /\ Returned("istat_to_pandas")
    /\ Len(ret.istat) = 2
    /\ ret.istat[1].GE = 229 /\ ret.istat[1].time = DaysFromCivil(2020, 1, 1) + 59
    /\ ret.istat[2].GE = 400 /\ ret.istat[2].time = DaysFromCivil(2020, 1, 1) + 90

AgeTable == {"0-49", "50-59", "60-69", "70-79", "80-89", "90+"}

\* the lower bound of an age class of the table
LowerBound(label) ==
    IF label = "0-49" THEN 0
    ELSE IF label = "50-59" THEN 50
    ELSE IF label = "60-69" THEN 60
    ELSE IF label = "70-79" THEN 70
    ELSE IF label = "80-89" THEN 80
    ELSE 90

DocumentedAgeClass(code) ==
    IF code <= 10 THEN "0-49"
    ELSE IF code >= 19 THEN "90+"
    ELSE ToString(((code - 1) \div 2) * 10) \o "-" \o ToString(((code - 1) \div 2) * 10 + 9)

\* C7: the age class of a record is "0-49" for a code <= 10, the decade from
\* ((code-1)//2)*10 to ((code-1)//2)*10+9 for a code 11..18, "90+" for a code
\* >= 19; every label is in the table and the lower bound of the label does
\* not decrease as the code grows.
C7_AgeClassTable ==
    Returned("istat_to_pandas") =>
        \A i \in 1..Len(ret.istat) :
            LET r == ret.istat[i]
            IN  /\ r.age_class = DocumentedAgeClass(r.CL_ETA)
                /\ r.age_class \in AgeTable
                /\ \A j \in 1..Len(ret.istat) :
                       r.CL_ETA <= ret.istat[j].CL_ETA
                       => LowerBound(r.age_class) <= LowerBound(ret.istat[j].age_class)

\* codes 12 and 18 came back as their decades
C7_Witness ==
    /\ Returned("istat_to_pandas")
    /\ Len(ret.istat) = 2
    /\ ret.istat[1].CL_ETA = 12 /\ ret.istat[1].age_class = "50-59"
    /\ ret.istat[2].CL_ETA = 18 /\ ret.istat[2].age_class = "80-89"

\* GE = 100*M + D names a day of January..April 2020
CalendarCode(GE) ==
    /\ GE \div 100 \in 1..4
    /\ GE % 100 \in 1..DaysInMonth(2020, GE \div 100)

\* C10: for a day code 100*M + D of a day of January..April 2020 the time is
\* the calendar date 2020-M-D, and a later code has a later time.
C10_CalendarCodes ==
    Returned("istat_to_pandas") =>
        \A i \in 1..Len(ret.istat) :
            LET r == ret.istat[i]
            IN  CalendarCode(r.GE) =>
                    /\ CivilFromDays(r.time) = <<2020, r.GE \div 100, r.GE % 100>>
                    /\ \A j \in 1..Len(ret.istat) :
                           (CalendarCode(ret.istat[j].GE) /\ r.GE < ret.istat[j].GE)
                           => r.time < ret.istat[j].time

\* the leap day and the first of March came back a day apart
C10_Witness ==
    /\ Returned("istat_to_pandas")
    /\ Len(ret.istat) = 2
    /\ ret.istat[1].GE = 229 /\ CivilFromDays(ret.istat[1].time) = <<2020, 2, 29>>
    /\ ret.istat[2].GE = 301 /\ CivilFromDays(ret.istat[2].time) = <<2020, 3, 1>>
    /\ ret.istat[2].time = ret.istat[1].time + 1

\* the date columns reformat reads of the file it was called on, and the
\* calendar date each label M/D/YY names
ReadLabels == From(call.arg.labels, Len(Skipped(call.arg.schema)))

NamedDate(label) == DaysFromCivil(2000 + IntOf(label.y), IntOf(label.m), IntOf(label.d))

\* the location reformat maps source row r to
MappedLocation(r) ==
    ReformatLocation(ReadCell(call.arg.rows[r].country, TRUE),
                     ReadCell(call.arg.rows[r].state, TRUE)).v

RECURSIVE NonEmpty(_)
NonEmpty(fields) ==
    IF fields = <<>> THEN <<>>
    ELSE IF Strip(Head(fields)) # <<>> THEN <<Head(fields)>> \o NonEmpty(Tail(fields))
    ELSE NonEmpty(Tail(fields))

Stripped(fields) == [i \in 1..Len(fields) |-> Strip(fields[i])]

\* C4: the location of a row is its non-empty geography fields (country,
\* state, and county for the US builder) joined broad to narrow by " - " in
\* reformat and " / " in the builders; an empty, blank or missing field is
\* left out, so no separator leads, trails or doubles.
C4_LocationJoin ==
    LET row == call.arg.rows[1]
    IN  /\ Returned("reformat") =>
               /\ ret.err = ""
               /\ \A k \in 1..Len(ret.lines) :
                      ret.lines[k].location =
                          Join(<<" ", "-", " ">>,
                               Stripped(NonEmpty(<<row.country, row.state>>)))
        /\ Returned("jhu_global_to_xarray") =>
               /\ ret.err = ""
               /\ ret.location[1] =
                      Join(<<" ", "/", " ">>, NonEmpty(<<row.country, row.state>>))
        /\ Returned("jhu_usa_to_xarray") =>
               /\ ret.err = ""
               /\ ret.location[1] =
                      Join(<<" ", "/", " ">>,
                           NonEmpty(<<row.country, row.state, row.county>>))

\* C5: for a date label M/D/YY the header parser of reformat and the label
\* parser of the array builders give the same calendar date, the day D of
\* month M of the year 2000+YY.
C5_DateParsersAgree ==
    LET label == call.arg.labels[Len(call.arg.labels)]
    IN  /\ Returned("reformat") =>
               /\ ret.err = ""
               /\ ret.lines[Len(ret.lines)].date = NamedDate(label)
        /\ (Returned("jhu_global_to_xarray") \/ Returned("jhu_usa_to_xarray")) =>
               /\ ret.err = ""
               /\ ret.time[Len(ret.time)] = NamedDate(label)
        /\ pc = "done" => ParseHeader(label) = ParseDateLabel(label)

\* C8: interp_on_observations returns an array whose index axis has one entry
\* per observation point, N >= 0 of them, whatever dimensions the grid and
\* the points share: entry k is the grid slice selected for point k and
\* carries the k-th identity of observed[index], in order.
C8_OneEntryPerPoint ==
    Returned("interp_on_observations") =>
        LET observed == call.arg.observed
            gridded == call.arg.gridded
            shared == gridded.dims \cap DOMAIN observed
            N == Len(observed[call.opt])
        IN  /\ ret.err = ""
            /\ Len(ret.data) = N
            /\ ret.index = observed[call.opt]
            /\ \A k \in 1..N :
                   ret.data[k] =
                       [dim \in shared |->
                           Nearest(gridded.axis[dim], Normalized(dim, observed[dim])[k])]

\* the longitude in [0, 360) that differs from x by whole turns
Wrapped(x) == CHOOSE v \in 0..359 : \E t \in -2..2 : x = v + 360 * t

\* C9: the resampler selects along lon the grid cell nearest to the observed
\* longitude brought into [0, 360) and along every other shared dimension the
\* cell nearest to the observed value itself; on a grid stored in [0, 360) a
\* longitude of -10 selects the cell nearest to 350.
C9_LongitudeWraps ==
    (Returned("interp_on_observations") /\ ret.err = "") =>
        LET observed == call.arg.observed
            gridded == call.arg.gridded
        IN  \A k \in 1..Len(ret.data) :
                \A dim \in gridded.dims \cap DOMAIN observed :
                    /\ ret.data[k][dim] =
                           Nearest(gridded.axis[dim],
                                   IF dim = "lon" THEN Wrapped(observed[dim][k])
                                   ELSE observed[dim][k])
                    /\ (dim = "lon" /\ observed[dim][k] = -10) => ret.data[k][dim] = 350

\* a point at longitude -10 and latitude -40 got the cell at 350 and -45
C9_Witness ==
    /\ Returned("interp_on_observations")
    /\ ret.err = ""
    /\ call.arg.gridded.dims = {"lat", "lon", "time"}
    /\ DOMAIN call.arg.observed = {"lat", "lon", "location"}
    /\ call.arg.observed["lon"][1] = -10
    /\ call.arg.observed["lat"][1] = -40
    /\ ret.data[1] = [lat |-> -45, lon |-> 350]

====
